---- MODULE Spec2Model ----
(***************************************************************************)
(* MarkdownParser (markdown_parser.py): the line-oriented block parser,    *)
(* its inline rule engine, heading slug assignment and table of contents.  *)
(* Text is a sequence of one-character strings; a document is the text     *)
(* handed to parse, lines are what parse obtains by splitting it.          *)
(***************************************************************************)
EXTENDS Integers, Sequences, FiniteSets, TLC

\* ------------------------------------------------------------------ bounds
\* Lines of the document given to the first parse call on a parser.
MaxLines == 3
\* Lines of a document given to a later parse call on the same parser.
MaxReLines == 1
\* Depth of nested parse calls at which the interpreter raises RecursionError.
MaxDepth == 4
\* Iterations of the dispatcher loop that a parse which makes no progress is
\* followed for.
MaxSpin == 2

\* ------------------------------------------------------- characters, text
NL == "\n"
CR == "\r"
\* the backtick character, which a TLA+ string cannot hold
BT == "BACKTICK"

\* str.isspace / regex \s, over the characters that occur
IsSpace(c) == c \in {" ", "\t", NL, CR}

IsDigit(c) == c \in {"0", "1", "2", "3", "4", "5", "6", "7", "8", "9"}

Uppers == <<"A", "B", "C", "D", "E", "F", "G", "H", "I", "J", "K", "L", "M",
            "N", "O", "P", "Q", "R", "S", "T", "U", "V", "W", "X", "Y", "Z">>

Lowers == <<"a", "b", "c", "d", "e", "f", "g", "h", "i", "j", "k", "l", "m",
            "n", "o", "p", "q", "r", "s", "t", "u", "v", "w", "x", "y", "z">>

IsUpper(c) == \E k \in 1..26 : Uppers[k] = c

IsLower(c) == \E k \in 1..26 : Lowers[k] = c

\* regex class [a-zA-Z0-9]
IsAlnum(c) == IsUpper(c) \/ IsLower(c) \/ IsDigit(c)

\* regex class [\w\u4e00-\u9fff-] (no CJK character occurs): the characters a slug keeps
IsSlugChar(c) == IsAlnum(c) \/ c = "_" \/ c = "-"

\* str.lower on one character
LowerChar(c) == IF IsUpper(c) THEN Lowers[CHOOSE k \in 1..26 : Uppers[k] = c] ELSE c

\* str.lower
lower(t) == [k \in 1..Len(t) |-> LowerChar(t[k])]

\* t[a:] with a 0-based
From(t, a) == SubSeq(t, a + 1, Len(t))

\* str.startswith
StartsWith(t, p) == Len(t) >= Len(p) /\ SubSeq(t, 1, Len(p)) = p

\* p occurs in t at the 1-based position k
At(t, k, p) == k >= 1 /\ k + Len(p) - 1 <= Len(t) /\ SubSeq(t, k, k + Len(p) - 1) = p

\* number of leading characters of t in the class cls
LeadCount(t, cls) ==
    IF \A k \in 1..Len(t) : t[k] \in cls THEN Len(t)
    ELSE (CHOOSE k \in 1..Len(t) : t[k] \notin cls /\ \A j \in 1..(k - 1) : t[j] \in cls) - 1

\* number of trailing characters of t in cls
TrailCount(t, cls) ==
    IF \A k \in 1..Len(t) : t[k] \in cls THEN Len(t)
    ELSE Len(t) - (CHOOSE k \in 1..Len(t) :
                      t[k] \notin cls /\ \A j \in (k + 1)..Len(t) : t[j] \in cls)

Spaces == {" ", "\t", NL, CR}

\* str.strip(chars)
StripChars(t, cls) ==
    LET a == LeadCount(t, cls)
    IN  IF a = Len(t) THEN <<>> ELSE SubSeq(t, a + 1, Len(t) - TrailCount(t, cls))

\* str.strip()
strip(t) == StripChars(t, Spaces)

\* str.replace(old, new) for a one-character old
RECURSIVE replace(_, _, _)
replace(t, old, new) ==
    IF t = <<>> THEN <<>>
    ELSE (IF t[1] = old THEN new ELSE <<t[1]>>) \o replace(Tail(t), old, new)

\* str.replace('\r\n', '\n')
RECURSIVE replaceCRLF(_)
replaceCRLF(t) ==
    IF t = <<>> THEN <<>>
    ELSE IF At(t, 1, <<CR, NL>>) THEN <<NL>> \o replaceCRLF(From(t, 2))
    ELSE <<t[1]>> \o replaceCRLF(Tail(t))

\* 1-based position of the first character of t at or after k that is c; 0 if none
Find(t, k, c) ==
    LET at == {j \in k..Len(t) : t[j] = c}
    IN  IF at = {} THEN 0 ELSE CHOOSE j \in at : \A i \in at : j <= i

\* str.split(sep) for a one-character sep: always at least one piece
RECURSIVE split(_, _)
split(t, sep) ==
    LET k == Find(t, 1, sep)
    IN  IF k = 0 THEN <<t>>
        ELSE <<SubSeq(t, 1, k - 1)>> \o split(From(t, k), sep)

\* sep.join(parts)
RECURSIVE join(_, _)
join(parts, sep) ==
    IF parts = <<>> THEN <<>>
    ELSE IF Len(parts) = 1 THEN parts[1]
    ELSE parts[1] \o sep \o join(Tail(parts), sep)

\* str(n) for n >= 0
RECURSIVE str(_)
str(n) ==
    LET d == <<"0", "1", "2", "3", "4", "5", "6", "7", "8", "9">>[(n % 10) + 1]
    IN  IF n < 10 THEN <<d>> ELSE str(n \div 10) \o <<d>>

\* ------------------------------------------------------------ inline rules
ImgOpen == <<"<", "i", "m", "g", " ", "s", "r", "c", "=", "\"">>
ImgMid == <<"\"", " ", "a", "l", "t", "=", "\"">>
AttrEnd == <<"\"", ">">>
AOpen == <<"<", "a", " ", "h", "r", "e", "f", "=", "\"">>
AClose == <<"<", "/", "a", ">">>
CodeOpen == <<"<", "c", "o", "d", "e", ">">>
CodeClose == <<"<", "/", "c", "o", "d", "e", ">">>
StrongOpen == <<"<", "s", "t", "r", "o", "n", "g", ">">>
StrongClose == <<"<", "/", "s", "t", "r", "o", "n", "g", ">">>
EmOpen == <<"<", "e", "m", ">">>
EmClose == <<"<", "/", "e", "m", ">">>
DelOpen == <<"<", "d", "e", "l", ">">>
DelClose == <<"<", "/", "d", "e", "l", ">">>

\* pattern.sub scans for the leftmost match from position k on. A match can
\* only start at the pattern's first character c, so each operator below looks
\* at the next occurrence p of c, copies the text before it, and either
\* replaces the match that starts at p or copies t[p] and goes on after it.

\* !\[([^\]]*)\]\(([^)]+)\) -> <img src="\2" alt="\1">
RECURSIVE SubImage(_, _)
SubImage(t, k) ==
    LET p == Find(t, k, "!")
        q == IF At(t, p, <<"!", "[">>) THEN Find(t, p + 2, "]") ELSE 0
        r == IF q > 0 /\ At(t, q + 1, <<"(">>) THEN Find(t, q + 2, ")") ELSE 0
    IN  IF p = 0 THEN SubSeq(t, k, Len(t))
        ELSE IF r > q + 2
        THEN SubSeq(t, k, p - 1) \o ImgOpen \o SubSeq(t, q + 2, r - 1) \o ImgMid
               \o SubSeq(t, p + 2, q - 1) \o AttrEnd \o SubImage(t, r + 1)
        ELSE SubSeq(t, k, p) \o SubImage(t, p + 1)

\* \[([^\]]+)\]\(([^)]+)\) -> <a href="\2">\1</a>
RECURSIVE SubLink(_, _)
SubLink(t, k) ==
    LET p == Find(t, k, "[")
        q == IF p > 0 THEN Find(t, p + 1, "]") ELSE 0
        r == IF q > p + 1 /\ At(t, q + 1, <<"(">>) THEN Find(t, q + 2, ")") ELSE 0
    IN  IF p = 0 THEN SubSeq(t, k, Len(t))
        ELSE IF r > q + 2
        THEN SubSeq(t, k, p - 1) \o AOpen \o SubSeq(t, q + 2, r - 1) \o AttrEnd
               \o SubSeq(t, p + 1, q - 1) \o AClose \o SubLink(t, r + 1)
        ELSE SubSeq(t, k, p) \o SubLink(t, p + 1)

\* `([^`]+)` -> <code>\1</code>
RECURSIVE SubCode(_, _)
SubCode(t, k) ==
    LET p == Find(t, k, BT)
        q == IF p > 0 THEN Find(t, p + 1, BT) ELSE 0
    IN  IF p = 0 THEN SubSeq(t, k, Len(t))
        ELSE IF q > p + 1
        THEN SubSeq(t, k, p - 1) \o CodeOpen \o SubSeq(t, p + 1, q - 1) \o CodeClose
               \o SubCode(t, q + 1)
        ELSE SubSeq(t, k, p) \o SubCode(t, p + 1)

\* the lazy (.+?) followed by the closing delimiter d: the smallest position
\* q >= k at which d occurs with only characters '.' matches before it; 0 if none
LazyClose(t, k, d) ==
    LET at == {q \in k..Len(t) : At(t, q, d) /\ \A j \in k..(q - 1) : t[j] # NL}
    IN  IF at = {} THEN 0 ELSE CHOOSE q \in at : \A j \in at : q <= j

\* d(.+?)d -> open \1 close, for a delimiter d
RECURSIVE SubDelim(_, _, _, _, _)
SubDelim(t, k, d, open, close) ==
    LET n == Len(d)
        p == Find(t, k, d[1])
        q == IF At(t, p, d) /\ p + n <= Len(t) /\ t[p + n] # NL
             THEN LazyClose(t, p + n + 1, d) ELSE 0
    IN  IF p = 0 THEN SubSeq(t, k, Len(t))
        ELSE IF q > 0
        THEN SubSeq(t, k, p - 1) \o open \o SubSeq(t, p + n, q - 1) \o close
               \o SubDelim(t, q + n, d, open, close)
        ELSE SubSeq(t, k, p) \o SubDelim(t, p + 1, d, open, close)

\* the closing '_' of rule 9: the smallest q >= k with t[q] = '_' not followed
\* by an alphanumeric
LazyCloseUnderscore(t, k) ==
    LET at == {q \in k..Len(t) : /\ t[q] = "_"
                                 /\ (q = Len(t) \/ ~IsAlnum(t[q + 1]))
                                 /\ \A j \in k..(q - 1) : t[j] # NL}
    IN  IF at = {} THEN 0 ELSE CHOOSE q \in at : \A j \in at : q <= j

\* (?<![a-zA-Z0-9])_(.+?)_(?![a-zA-Z0-9]) -> <em>\1</em>
RECURSIVE SubUnderscore(_, _)
SubUnderscore(t, k) ==
    LET p == Find(t, k, "_")
        q == IF /\ p > 0
                /\ (p = 1 \/ ~IsAlnum(t[p - 1]))
                /\ p + 1 <= Len(t) /\ t[p + 1] # NL
             THEN LazyCloseUnderscore(t, p + 2) ELSE 0
    IN  IF p = 0 THEN SubSeq(t, k, Len(t))
        ELSE IF q > 0
        THEN SubSeq(t, k, p - 1) \o EmOpen \o SubSeq(t, p + 1, q - 1) \o EmClose
               \o SubUnderscore(t, q + 1)
        ELSE SubSeq(t, k, p) \o SubUnderscore(t, p + 1)

\* the rules with the italic rule for '*' moved before the bold+italic rules
INLINE_RULES_ItalicFirst(n, t) ==
    CASE n = 1 -> SubImage(t, 1)
      [] n = 2 -> SubLink(t, 1)
      [] n = 3 -> SubCode(t, 1)
      [] n = 4 -> SubDelim(t, 1, <<"*">>, EmOpen, EmClose)
      [] n = 5 -> SubDelim(t, 1, <<"*", "*", "*">>, StrongOpen \o EmOpen, EmClose \o StrongClose)
      [] n = 6 -> SubDelim(t, 1, <<"_", "_", "_">>, StrongOpen \o EmOpen, EmClose \o StrongClose)
      [] n = 7 -> SubDelim(t, 1, <<"*", "*">>, StrongOpen, StrongClose)
      [] n = 8 -> SubDelim(t, 1, <<"_", "_">>, StrongOpen, StrongClose)
      [] n = 9 -> SubUnderscore(t, 1)
      [] n = 10 -> SubDelim(t, 1, <<"~", "~">>, DelOpen, DelClose)

\* INLINE_RULES: rule n applied to the whole text
INLINE_RULES(n, t) ==
    CASE n = 1 -> SubImage(t, 1)
      [] n = 2 -> SubLink(t, 1)
      [] n = 3 -> SubCode(t, 1)
      [] n = 4 -> SubDelim(t, 1, <<"*", "*", "*">>, StrongOpen \o EmOpen, EmClose \o StrongClose)
      [] n = 5 -> SubDelim(t, 1, <<"_", "_", "_">>, StrongOpen \o EmOpen, EmClose \o StrongClose)
      [] n = 6 -> SubDelim(t, 1, <<"*", "*">>, StrongOpen, StrongClose)
      [] n = 7 -> SubDelim(t, 1, <<"_", "_">>, StrongOpen, StrongClose)
      [] n = 8 -> SubDelim(t, 1, <<"*">>, EmOpen, EmClose)
      [] n = 9 -> SubUnderscore(t, 1)
      [] n = 10 -> SubDelim(t, 1, <<"~", "~">>, DelOpen, DelClose)

NumInlineRules == 10

\* the rules n..NumInlineRules applied in order
RECURSIVE ApplyRules(_, _)
ApplyRules(n, t) ==
    IF n > NumInlineRules THEN t ELSE ApplyRules(n + 1, INLINE_RULES(n, t))

parse_inline(text) == ApplyRules(1, text)

\* ------------------------------------------------------- line predicates
Fence == <<BT, BT, BT>>

\* line.strip() == ''
IsBlank(line) == \A k \in 1..Len(line) : IsSpace(line[k])

\* line.strip().startswith('```')
IsFenceStart(line) == StartsWith(strip(line), Fence)

\* ^(#{1,6})\s+(.+)$ : one to six hashes, whitespace, at least one more character
HeadingMatch(line) ==
    LET k == LeadCount(line, {"#"})
    IN  k >= 1 /\ k <= 6 /\ Len(line) >= k + 2 /\ IsSpace(line[k + 1])

\* len(m.group(1))
HeadingLevel(line) == LeadCount(line, {"#"})

\* m.group(2).strip()
HeadingRaw(line) == strip(From(line, LeadCount(line, {"#"})))

\* ^(\s*[-*_]\s*){3,}$
IsHr(line) ==
    /\ \A k \in 1..Len(line) : IsSpace(line[k]) \/ line[k] \in {"-", "*", "_"}
    /\ Cardinality({k \in 1..Len(line) : line[k] \in {"-", "*", "_"}}) >= 3

\* ^(\s*)([-*+])\s+ matches a prefix of the line
IsUlItem(line) ==
    LET k == LeadCount(line, Spaces)
    IN  Len(line) >= k + 2 /\ line[k + 1] \in {"-", "*", "+"} /\ IsSpace(line[k + 2])

\* re.sub(r'^(\s*)([-*+])\s+', '', line) on a matching line
UlText(line) ==
    LET k == LeadCount(line, Spaces) + 1
    IN  From(line, k + LeadCount(From(line, k), Spaces))

Digits == {"0", "1", "2", "3", "4", "5", "6", "7", "8", "9"}

\* ^(\s*)\d+\.\s+ matches a prefix of the line
IsOlItem(line) ==
    LET k == LeadCount(line, Spaces)
        d == LeadCount(From(line, k), Digits)
    IN  d >= 1 /\ Len(line) >= k + d + 2 /\ line[k + d + 1] = "." /\ IsSpace(line[k + d + 2])

\* re.sub(r'^(\s*)\d+\.\s+', '', line) on a matching line
OlText(line) ==
    LET k == LeadCount(line, Spaces)
        e == k + LeadCount(From(line, k), Digits) + 1
    IN  From(line, e + LeadCount(From(line, e), Spaces))

\* '|' in line
HasPipe(line) == \E k \in 1..Len(line) : line[k] = "|"

\* ^[\s|:-]+$
IsDelimiterRow(line) ==
    Len(line) >= 1 /\ \A k \in 1..Len(line) : IsSpace(line[k]) \/ line[k] \in {"|", ":", "-"}

\* a dispatcher that tests the bullet pattern before the horizontal rule
KindBulletFirst(lines, i) ==
    LET line == lines[i + 1]
    IN  IF IsBlank(line) THEN "blank"
        ELSE IF IsFenceStart(line) THEN "code"
        ELSE IF HeadingMatch(line) THEN "heading"
        ELSE IF StartsWith(strip(line), <<">">>) THEN "blockquote"
        ELSE IF IsUlItem(line) THEN "ul"
        ELSE IF IsHr(line) THEN "hr"
        ELSE IF IsOlItem(line) THEN "ol"
        ELSE IF HasPipe(line) /\ i + 1 < Len(lines) /\ IsDelimiterRow(lines[i + 2]) THEN "table"
        ELSE "paragraph"

\* the branch of the dispatcher loop taken for lines[i] (i 0-based), first match wins
Kind(lines, i) ==
    LET line == lines[i + 1]
    IN  IF IsBlank(line) THEN "blank"
        ELSE IF IsFenceStart(line) THEN "code"
        ELSE IF HeadingMatch(line) THEN "heading"
        ELSE IF IsHr(line) THEN "hr"
        ELSE IF StartsWith(strip(line), <<">">>) THEN "blockquote"
        ELSE IF IsUlItem(line) THEN "ul"
        ELSE IF IsOlItem(line) THEN "ol"
        ELSE IF HasPipe(line) /\ i + 1 < Len(lines) /\ IsDelimiterRow(lines[i + 2]) THEN "table"
        ELSE "paragraph"

\* ------------------------------------------------------------------ slugs
\* re.sub(r'[^\w\u4e00-\u9fff-]', '', raw).lower()
Slugify(raw) == lower(SelectSeq(raw, IsSlugChar))

\* a fallback that counts positions from one
BaseSlugOneBased(raw, n) ==
    IF Slugify(raw) = <<>> THEN <<"h", "-">> \o str(n + 1) ELSE Slugify(raw)

\* ... or f'h-{len(self.headings)}'
BaseSlug(raw, n) ==
    IF Slugify(raw) = <<>> THEN <<"h", "-">> \o str(n) ELSE Slugify(raw)

\* while slug in ids: slug = f'{base}-{c}'; c += 1
RECURSIVE DedupLoop(_, _, _, _)
DedupLoop(base, slug, c, ids) ==
    IF slug \in ids THEN DedupLoop(base, base \o <<"-">> \o str(c), c + 1, ids) ELSE slug

\* a dedup that suffixes once instead of looping
UniqueSlugOnce(base, ids) == IF base \in ids THEN base \o <<"-", "1">> ELSE base

\* a dedup whose counter starts at 2
UniqueSlugFromTwo(base, ids) == DedupLoop(base, base, 2, ids)

\* the slug given to a heading of base slug base when the slugs ids are taken
UniqueSlug(base, ids) == DedupLoop(base, base, 1, ids)

\* a heading branch that writes the base slug into the element
headingWithBaseId(hs, line) ==
    LET lv == HeadingLevel(line)
        raw == HeadingRaw(line)
        content == parse_inline(raw)
        base == BaseSlug(raw, Len(hs))
        slug == UniqueSlug(base, {hs[k].slug : k \in 1..Len(hs)})
    IN  [rec |-> [lv |-> lv, slug |-> slug, raw |-> raw],
         html |-> [tag |-> "h", lv |-> lv, id |-> base, content |-> content]]

\* the heading branch of parse: the record appended to self.headings (hs) and
\* the element appended to html_parts
heading(hs, line) ==
    LET lv == HeadingLevel(line)
        raw == HeadingRaw(line)
        content == parse_inline(raw)
        slug == UniqueSlug(BaseSlug(raw, Len(hs)), {hs[k].slug : k \in 1..Len(hs)})
    IN  [rec |-> [lv |-> lv, slug |-> slug, raw |-> raw],
         html |-> [tag |-> "h", lv |-> lv, id |-> slug, content |-> content]]

\* --------------------------------------------------------- block handlers
\* Each handler returns its HTML (html), the cursor it hands back (i, 0-based)
\* and the 0-based indices of the lines it took into its block (read).

\* _esc
esc(t) ==
    replace(replace(replace(replace(t, "&", <<"&", "a", "m", "p", ";">>),
                            "<", <<"&", "l", "t", ";">>),
                    ">", <<"&", "g", "t", ";">>),
            "\"", <<"&", "q", "u", "o", "t", ";">>)

\* a code block that ends with its opening line
CodeLoopOpeningOnly(lines, i, out) == [i |-> i, out |-> out]

RECURSIVE CodeLoop(_, _, _)
CodeLoop(lines, i, out) ==
    IF i < Len(lines)
    THEN IF strip(lines[i + 1]) = Fence THEN [i |-> i + 1, out |-> out]
         ELSE CodeLoop(lines, i + 1, Append(out, esc(lines[i + 1])))
    ELSE [i |-> i, out |-> out]

\* _code_block
code_block(lines, s) ==
    LET lang == strip(From(strip(lines[s + 1]), 3))
        r == CodeLoop(lines, s + 1, <<>>)
    IN  [html |-> [tag |-> "pre", lang |-> lang, code |-> join(r.out, <<NL>>)],
         i |-> r.i, read |-> s..(r.i - 1)]

\* re.sub(r'^>\s?', '', line)
Dedent(line) ==
    IF StartsWith(line, <<">">>)
    THEN IF Len(line) >= 2 /\ IsSpace(line[2]) THEN From(line, 2) ELSE From(line, 1)
    ELSE line

RECURSIVE QuoteLoop(_, _, _)
QuoteLoop(lines, i, ql) ==
    IF i < Len(lines) /\ StartsWith(strip(lines[i + 1]), <<">">>)
    THEN QuoteLoop(lines, i + 1, Append(ql, Dedent(lines[i + 1])))
    ELSE [i |-> i, ql |-> ql]

\* _blockquote up to the nested parse call: the text handed to it (inner)
blockquote(lines, s) ==
    LET r == QuoteLoop(lines, s, <<>>)
    IN  [inner |-> join(r.ql, <<NL>>), i |-> r.i, read |-> s..(r.i - 1)]

RECURSIVE UlLoop(_, _, _)
UlLoop(lines, i, items) ==
    IF i < Len(lines) /\ IsUlItem(lines[i + 1])
    THEN UlLoop(lines, i + 1, Append(items, parse_inline(UlText(lines[i + 1]))))
    ELSE [i |-> i, items |-> items]

\* _ul
ul(lines, s) ==
    LET r == UlLoop(lines, s, <<>>)
    IN  [html |-> [tag |-> "ul", items |-> r.items], i |-> r.i, read |-> s..(r.i - 1)]

RECURSIVE OlLoop(_, _, _)
OlLoop(lines, i, items) ==
    IF i < Len(lines) /\ IsOlItem(lines[i + 1])
    THEN OlLoop(lines, i + 1, Append(items, parse_inline(OlText(lines[i + 1]))))
    ELSE [i |-> i, items |-> items]

\* _ol
ol(lines, s) ==
    LET r == OlLoop(lines, s, <<>>)
    IN  [html |-> [tag |-> "ol", items |-> r.items], i |-> r.i, read |-> s..(r.i - 1)]

\* sr: the cells of a table row
sr(l) ==
    LET cells == split(StripChars(strip(l), {"|"}), "|")
    IN  [k \in 1..Len(cells) |-> strip(cells[k])]

\* an al that tests the trailing colon first
AlignOfRightFirst(c) ==
    IF strip(c) # <<>> /\ strip(c)[Len(strip(c))] = ":" THEN "right"
    ELSE IF StartsWith(strip(c), <<":">>) THEN "center"
    ELSE "left"

\* the alignment al derives from one cell of the delimiter row
AlignOf(c) ==
    IF StartsWith(strip(c), <<":">>) /\ strip(c)[Len(strip(c))] = ":" THEN "center"
    ELSE IF strip(c) # <<>> /\ strip(c)[Len(strip(c))] = ":" THEN "right"
    ELSE "left"

\* al: the alignments of the delimiter row
al(l) == [k \in 1..Len(sr(l)) |-> AlignOf(sr(l)[k])]

\* the <th>/<td> elements of one row: aligns[j] if j < len(aligns) else "left"
Cells(row, aligns) ==
    [j \in 1..Len(row) |->
        [align |-> IF j <= Len(aligns) THEN aligns[j] ELSE "left",
         content |-> parse_inline(row[j])]]

RECURSIVE RowLoop(_, _, _, _)
RowLoop(lines, i, aligns, rows) ==
    IF i < Len(lines) /\ HasPipe(lines[i + 1]) /\ strip(lines[i + 1]) # <<>>
    THEN RowLoop(lines, i + 1, aligns, Append(rows, Cells(sr(lines[i + 1]), aligns)))
    ELSE [i |-> i, rows |-> rows]

\* a body that starts at the delimiter row
TableBodyStartAtDelimiter(s) == s + 1

\* i = s+2: the cursor after the header and the delimiter row
TableBodyStart(s) == s + 2

\* _table
table(lines, s) ==
    LET hdr == sr(lines[s + 1])
        aligns == al(lines[s + 2])
        r == RowLoop(lines, TableBodyStart(s), aligns, <<>>)
    IN  [html |-> [tag |-> "table", ths |-> Cells(hdr, aligns), rows |-> r.rows],
         i |-> r.i, read |-> {s, s + 1} \cup (TableBodyStart(s)..(r.i - 1))]

\* the lines at which the paragraph loop breaks
ParagraphBreak(line) ==
    \/ StartsWith(strip(line), <<"#">>)
    \/ StartsWith(strip(line), <<">">>)
    \/ StartsWith(strip(line), Fence)
    \/ IsUlItem(line)
    \/ IsOlItem(line)
    \/ IsHr(line)

RECURSIVE ParagraphLoop(_, _, _)
ParagraphLoop(lines, i, pl) ==
    IF i < Len(lines) /\ strip(lines[i + 1]) # <<>> /\ ~ParagraphBreak(lines[i + 1])
    THEN ParagraphLoop(lines, i + 1, Append(pl, lines[i + 1]))
    ELSE [i |-> i, pl |-> pl]

\* _paragraph
paragraph(lines, s) ==
    LET r == ParagraphLoop(lines, s, <<>>)
    IN  [html |-> [tag |-> "p", content |-> parse_inline(join(r.pl, <<" ">>))],
         i |-> r.i, read |-> s..(r.i - 1)]

\* the heading records of level lv and above, grouped by level
RECURSIVE ByLevel(_, _)
ByLevel(hs, lv) ==
    IF lv > 6 THEN <<>>
    ELSE SelectSeq(hs, LAMBDA h : h.lv = lv) \o ByLevel(hs, lv + 1)

\* a table of contents that lists the headings level by level
generate_toc_by_level(hs) ==
    IF hs = <<>> THEN [ul |-> FALSE, items |-> <<>>]
    ELSE [ul |-> TRUE,
          items |-> [k \in 1..Len(hs) |->
                       [indent |-> 2 * (ByLevel(hs, 1)[k].lv - 1), class |-> ByLevel(hs, 1)[k].lv,
                        href |-> <<"#">> \o ByLevel(hs, 1)[k].slug,
                        text |-> ByLevel(hs, 1)[k].raw]]]

\* generate_toc: '' (ul FALSE) without headings, else the list with one item
\* per heading record
generate_toc(hs) ==
    IF hs = <<>> THEN [ul |-> FALSE, items |-> <<>>]
    ELSE [ul |-> TRUE,
          items |-> [k \in 1..Len(hs) |->
                       [indent |-> 2 * (hs[k].lv - 1), class |-> hs[k].lv,
                        href |-> <<"#">> \o hs[k].slug, text |-> hs[k].raw]]]

\* ----------------------------------------------------------- input lines
\* The lines documents are made of: one or two of every kind the dispatcher
\* and the handlers distinguish.
Pool ==
    { <<>>,                                      \* blank
      <<"#", " ", "h">>,                         \* heading
      <<"#", "#", " ", "*", "h", "*">>,          \* level 2, inline markup, same slug
      <<"#", " ", "h", "-", "1">>,               \* text that looks like a suffixed slug
      <<"#", " ", "!">>,                         \* no slug character
      <<"#", "h">>,                              \* '#' but no ATX heading
      <<">", " ", ">", "#", " ", "h">>,          \* nested quote around a heading
      <<" ", ">", "h">>,                         \* whitespace before the quote marker
      <<BT, BT, BT>>,                            \* code fence
      <<"-", " ", "-", " ", "-">>,               \* rule, bullet pattern and delimiter row
      <<"-", " ", "h">>,                         \* bullet item
      <<"1", ".", " ", "h">>,                    \* numbered item
      <<"h", "|", "h">>,                         \* table row of two cells
      <<"h">> }                                  \* plain text

\* documents of at most n lines
Docs(n) == UNION { { join(ls, <<NL>>) : ls \in [1..k -> Pool] } : k \in 0..n }

\* ------------------------------------------------------------------ state
VARIABLES
    pc,        \* "ready": the caller holds a parser and no results; "parsing";
               \* "returned": parse has returned to the caller; "raised": the
               \* parse call ended with RecursionError
    stack,     \* the running parse calls, outermost first; each a frame
               \*   self: the parser instance the call is made on
               \*   lines, i, html_parts: the locals of parse
               \*   ret: the cursor the blockquote handler that made the call
               \*        hands back to its caller
               \*   read: per line, the number of handler invocations that
               \*         took the line into their block
               \*   hlog: the 0-based line indices handled by the heading branch
    headings,  \* headings[k]: self.headings of parser instance k; instance 1
               \* is the caller's parser, the others are made by _blockquote
    result,    \* html_parts returned by the last completed top-level parse
    toc,       \* <<v>> once generate_toc() has returned v for this result
    parsed,    \* parse has been called on the caller's parser
    prev,      \* the length of the caller's heading list when the last
               \* top-level parse was called
    last       \* lines, read and hlog of the last completed top-level parse

vars == <<pc, stack, headings, result, toc, parsed, prev, last>>

NoLast == [lines |-> <<>>, read |-> <<>>, hlog |-> <<>>]

Top == stack[Len(stack)]

\* the loop condition of parse, followed for at most MaxSpin iterations past
\* the number of blocks a document of this length can have
Running(f) == f.i < Len(f.lines) /\ Len(f.html_parts) < Len(f.lines) + MaxSpin

\* markdown.replace('\r\n', '\n').replace('\r', '\n').split('\n')
SplitLines(markdown) == split(replace(replaceCRLF(markdown), CR, <<NL>>), NL)

\* the locals of parse(markdown) on instance self at loop entry
NewFrame(self, markdown, ret) ==
    LET lines == SplitLines(markdown)
    IN  [self |-> self, lines |-> lines, i |-> 0, html_parts |-> <<>>, ret |-> ret,
         read |-> [k \in 1..Len(lines) |-> 0], hlog |-> <<>>]

\* a parse that keeps the earlier records
ParseResetSkipped(hs, self) == hs

\* self.headings = [] at the start of parse
ParseReset(hs, self) == [hs EXCEPT ![self] = <<>>]

\* __init__ of a parser that becomes instance self
Construct(hs, self) == IF self > Len(hs) THEN Append(hs, <<>>) ELSE hs

\* a _blockquote that calls self.parse
QuoteParserSelf(self, hs) == self

\* the instance _blockquote calls parse on: MarkdownParser(), a new one
QuoteParser(self, hs) == Len(hs) + 1

\* a handler's outcome applied to the frame
Advance(f, h) ==
    [f EXCEPT !.i = h.i,
              !.html_parts = Append(@, h.html),
              !.read = [k \in DOMAIN @ |-> IF (k - 1) \in h.read THEN @[k] + 1 ELSE @[k]]]

Dispatch(kind) == pc = "parsing" /\ Running(Top) /\ Kind(Top.lines, Top.i) = kind

Step(f) ==
    /\ stack' = [stack EXCEPT ![Len(stack)] = f]
    /\ UNCHANGED <<pc, headings, result, toc, parsed, prev, last>>

Init ==
    /\ pc = "ready"
    /\ stack = <<>>
    /\ headings = << <<>> >>
    /\ result = <<>>
    /\ toc = <<>>
    /\ parsed = FALSE
    /\ prev = 0
    /\ last = NoLast

\* parser.parse(markdown) by the caller
ParseCall ==
    /\ pc = "ready"
    /\ \E markdown \in Docs(IF parsed THEN MaxReLines ELSE MaxLines) :
          stack' = <<NewFrame(1, markdown, 0)>>
    /\ pc' = "parsing"
    /\ headings' = ParseReset(headings, 1)
    /\ prev' = Len(headings[1])
    /\ parsed' = TRUE
    /\ UNCHANGED <<result, toc, last>>

SkipBlank ==
    /\ Dispatch("blank")
    /\ Step([Top EXCEPT !.i = @ + 1])

CodeBlock ==
    /\ Dispatch("code")
    /\ Step(Advance(Top, code_block(Top.lines, Top.i)))

Heading ==
    /\ Dispatch("heading")
    /\ LET f == Top
           h == heading(headings[f.self], f.lines[f.i + 1])
       IN  /\ headings' = [headings EXCEPT ![f.self] = Append(@, h.rec)]
           /\ stack' = [stack EXCEPT ![Len(stack)] =
                          [Advance(f, [html |-> h.html, i |-> f.i + 1, read |-> {f.i}])
                             EXCEPT !.hlog = Append(@, f.i)]]
    /\ UNCHANGED <<pc, result, toc, parsed, prev, last>>

HorizontalRule ==
    /\ Dispatch("hr")
    /\ Step(Advance(Top, [html |-> [tag |-> "hr"], i |-> Top.i + 1, read |-> {Top.i}]))

\* _blockquote: the nested parse call, or RecursionError at the depth limit
Blockquote ==
    /\ Dispatch("blockquote")
    /\ LET f == Top
           q == blockquote(f.lines, f.i)
           inst == QuoteParser(f.self, headings)
           marked == [f EXCEPT !.read = [k \in DOMAIN @ |->
                                            IF (k - 1) \in q.read THEN @[k] + 1 ELSE @[k]]]
       IN  IF Len(stack) >= MaxDepth
           THEN /\ pc' = "raised"
                /\ stack' = <<>>
                /\ headings' = <<headings[1]>>
           ELSE /\ pc' = "parsing"
                /\ stack' = Append([stack EXCEPT ![Len(stack)] = marked],
                                   NewFrame(inst, q.inner, q.i))
                /\ headings' = ParseReset(Construct(headings, inst), inst)
    /\ UNCHANGED <<result, toc, parsed, prev, last>>

UnorderedList ==
    /\ Dispatch("ul")
    /\ Step(Advance(Top, ul(Top.lines, Top.i)))

OrderedList ==
    /\ Dispatch("ol")
    /\ Step(Advance(Top, ol(Top.lines, Top.i)))

Table ==
    /\ Dispatch("table")
    /\ Step(Advance(Top, table(Top.lines, Top.i)))

Paragraph ==
    /\ Dispatch("paragraph")
    /\ Step(Advance(Top, paragraph(Top.lines, Top.i)))

\* return '\n'.join(html_parts): to the caller, or to _blockquote, which wraps
\* it and hands its cursor back to the outer parse
ParseReturn ==
    /\ pc = "parsing"
    /\ Top.i >= Len(Top.lines)
    /\ LET f == Top
           n == Len(stack)
       IN  IF n = 1
           THEN /\ pc' = "returned"
                /\ stack' = <<>>
                /\ result' = f.html_parts
                /\ last' = [lines |-> f.lines, read |-> f.read, hlog |-> f.hlog]
                /\ UNCHANGED headings
           ELSE /\ stack' = [SubSeq(stack, 1, n - 1) EXCEPT ![n - 1] =
                               [@ EXCEPT !.i = f.ret,
                                         !.html_parts = Append(@, [tag |-> "blockquote",
                                                                   inner |-> f.html_parts])]]
                /\ headings' = IF f.self # stack[n - 1].self
                               THEN SubSeq(headings, 1, Len(headings) - 1) ELSE headings
                /\ UNCHANGED <<pc, result, last>>
    /\ UNCHANGED <<toc, parsed, prev>>

\* parser.generate_toc() by the caller
GenerateToc ==
    /\ pc = "returned"
    /\ toc' = <<generate_toc(headings[1])>>
    /\ UNCHANGED <<pc, stack, headings, result, parsed, prev, last>>

\* the caller has used the fragment and the table of contents and keeps the
\* parser for its next document
NextDocument ==
    /\ pc = "returned"
    /\ pc' = "ready"
    /\ result' = <<>>
    /\ toc' = <<>>
    /\ last' = NoLast
    /\ UNCHANGED <<stack, headings, parsed, prev>>

Next ==
    \/ ParseCall
    \/ SkipBlank
    \/ CodeBlock
    \/ Heading
    \/ HorizontalRule
    \/ Blockquote
    \/ UnorderedList
    \/ OrderedList
    \/ Table
    \/ Paragraph
    \/ ParseReturn
    \/ GenerateToc
    \/ NextDocument

Spec == Init /\ [][Next]_vars

\* ----------------------------------------------------------------- claims
Min(a, b) == IF a < b THEN a ELSE b

H1 == <<"h">>

\* C1: every iteration of the dispatcher loop of a parse call hands back a
\* cursor strictly greater than the one it started with (so the loop reaches
\* the end of the lines). An iteration of the call at depth d has ended when
\* its html_parts or its cursor has changed.
C1_CursorAdvances ==
    [][\A d \in 1..Min(Len(stack), Len(stack')) :
          (stack'[d].html_parts # stack[d].html_parts \/ stack'[d].i # stack[d].i)
             => stack'[d].i > stack[d].i]_vars

\* C2: parse never raises: no parse call ends with RecursionError.
C2_NeverRaises == pc # "raised"

\* C3: at every point of every parse call, the slugs in the heading list of
\* the parser it runs on are pairwise distinct.
C3_SlugsDistinct ==
    \A inst \in 1..Len(headings) :
        \A a, b \in 1..Len(headings[inst]) :
            a # b => headings[inst][a].slug # headings[inst][b].slug

\* a parse in which a heading whose text looks like a suffixed slug precedes
\* two headings of the plain text: h-1, h, h-2
C3_Witness ==
    /\ pc = "returned"
    /\ Len(headings[1]) = 3
    /\ headings[1][1].raw = <<"h", "-", "1">>
    /\ headings[1][2].slug = H1
    /\ headings[1][3].slug = <<"h", "-", "2">>

\* the cursor of the parse call at depth d, counting the lines its running
\* blockquote handler has taken
Taken(d) == IF d < Len(stack) THEN stack[d + 1].ret ELSE stack[d].i

\* line k (1-based) of a frame is taken by exactly one handler invocation, or
\* is a blank line taken by none
CoveredOnce(lines, read, k) == read[k] = 1 \/ (read[k] = 0 /\ IsBlank(lines[k]))

\* C4: in every parse call the lines before the cursor are each taken by
\* exactly one handler invocation, except blank lines, which may be taken by
\* none; no line at or after the cursor has been taken; the cursor never moves
\* backwards. In a completed parse this covers all lines.
C4_LinesCoveredOnce ==
    /\ [](\A d \in 1..Len(stack) :
             \A k \in 1..Len(stack[d].lines) :
                 IF k <= Taken(d)
                 THEN CoveredOnce(stack[d].lines, stack[d].read, k)
                 ELSE stack[d].read[k] = 0)
    /\ [](pc = "returned" =>
             \A k \in 1..Len(last.lines) : CoveredOnce(last.lines, last.read, k))
    /\ [][\A d \in 1..Min(Len(stack), Len(stack')) : stack'[d].i >= stack[d].i]_vars

\* a completed parse of a table (header and delimiter row) followed by a
\* blank line
C4_Witness ==
    /\ pc = "returned"
    /\ Len(last.lines) = 3
    /\ last.read = <<1, 1, 0>>
    /\ Len(result) = 1
    /\ result[1].tag = "table"

\* the heading list hs holds exactly the headings of the lines hlog of lines
FromLines(hs, lines, hlog) ==
    /\ Len(hs) = Len(hlog)
    /\ \A k \in 1..Len(hlog) :
          /\ hs[k].raw = HeadingRaw(lines[hlog[k] + 1])
          /\ hs[k].lv = HeadingLevel(lines[hlog[k] + 1])
    /\ \A j, k \in 1..Len(hlog) : j < k => hlog[j] < hlog[k]

\* C5: during and after every top-level parse call on a parser, whatever
\* calls came before, its heading list holds exactly the headings that this
\* call has handled, and generate_toc returns '' when there are none.
C5_HeadingsOfLastParse ==
    /\ pc = "parsing" => FromLines(headings[1], stack[1].lines, stack[1].hlog)
    /\ pc = "returned" => FromLines(headings[1], last.lines, last.hlog)
    /\ (pc = "returned" /\ toc # <<>>) =>
          /\ Len(toc[1].items) = Len(last.hlog)
          /\ (last.hlog = <<>> => toc[1] = [ul |-> FALSE, items |-> <<>>])

\* a parse without headings on a parser whose earlier parse recorded some,
\* and generate_toc called after it
C5_Witness ==
    /\ pc = "returned"
    /\ prev >= 1
    /\ headings[1] = <<>>
    /\ toc = <<[ul |-> FALSE, items |-> <<>>]>>

\* C6: while a parse call waits in the blockquote handler (from the nested
\* call to its return), the heading list of the parser it runs on does not
\* change.
C6_QuoteKeepsOuterHeadings ==
    [][\A d \in 1..Min(Len(stack), Len(stack')) :
          (d < Len(stack) \/ d < Len(stack'))
             => headings'[stack[d].self] = headings[stack[d].self]]_vars

\* a completed parse of a heading, a blockquote around a (nested) heading and
\* another heading: the heading list holds the two outer headings
C6_Witness ==
    /\ pc = "returned"
    /\ Len(result) = 3
    /\ result[1].tag = "h"
    /\ result[2].tag = "blockquote"
    /\ result[2].inner[1].tag = "blockquote"
    /\ result[2].inner[1].inner[1].tag = "h"
    /\ result[3].tag = "h"
    /\ Len(headings[1]) = 2

\* C7: generate_toc emits one <li> per heading record, in the order of the
\* heading lines in the document, each with class toc-h{level} of its heading
\* line and href '#' + the slug of its record.
C7_TocInDocumentOrder ==
    (pc = "returned" /\ toc # <<>>) =>
        /\ Len(toc[1].items) = Len(last.hlog)
        /\ Len(toc[1].items) = Len(headings[1])
        /\ \A j, k \in 1..Len(last.hlog) : j < k => last.hlog[j] < last.hlog[k]
        /\ \A k \in 1..Len(toc[1].items) :
              /\ toc[1].items[k].class = HeadingLevel(last.lines[last.hlog[k] + 1])
              /\ toc[1].items[k].href = <<"#">> \o headings[1][k].slug

\* the table of contents of headings of levels 1, 2, 1
C7_Witness ==
    /\ pc = "returned"
    /\ toc # <<>>
    /\ Len(toc[1].items) = 3
    /\ toc[1].items[1].class = 1
    /\ toc[1].items[2].class = 2
    /\ toc[1].items[3].class = 1

\* the top-level heading elements of a fragment
HeadingElements(parts) == SelectSeq(parts, LAMBDA b : b.tag = "h")

\* C8: the text of every table-of-contents entry is the rendered content of
\* its heading element.
C8_TocTextRendered ==
    (pc = "returned" /\ toc # <<>>) =>
        /\ Len(toc[1].items) = Len(HeadingElements(result))
        /\ \A k \in 1..Len(toc[1].items) :
              toc[1].items[k].text = HeadingElements(result)[k].content

Suffixed(base, c) == base \o <<"-">> \o str(c)

\* heading k of hs has its base slug if no earlier heading has it, and
\* otherwise base-c for the smallest c >= 1 that no earlier heading has
SmallestFreeSuffix(hs) ==
    \A k \in 1..Len(hs) :
        LET ids == {hs[j].slug : j \in 1..(k - 1)}
            base == BaseSlug(hs[k].raw, k - 1)
        IN  IF base \notin ids THEN hs[k].slug = base
            ELSE \E c \in 1..k :
                    /\ hs[k].slug = Suffixed(base, c)
                    /\ Suffixed(base, c) \notin ids
                    /\ \A b \in 1..(c - 1) : Suffixed(base, b) \in ids

\* all headings of hs have the same text
SameText(hs) == \A j, k \in 1..Len(hs) : hs[j].raw = hs[k].raw

\* the slugs of hs are base, base-1, ..., base-(n-1)
Series(hs, base) ==
    \A k \in 1..Len(hs) : hs[k].slug = IF k = 1 THEN base ELSE Suffixed(base, k - 1)

\* C9 (for every common text): a colliding heading gets the smallest free suffix, and the
\* headings of a parse that all have the same text get the slugs base,
\* base-1, ..., base-(n-1), base being the slug of the first.
C9_SameTextSeries ==
    \A inst \in 1..Len(headings) :
        /\ SmallestFreeSuffix(headings[inst])
        /\ (headings[inst] # <<>> /\ SameText(headings[inst]))
              => Series(headings[inst], headings[inst][1].slug)

\* C9 (for texts with a slug character): a colliding heading gets the smallest
\* free suffix, and headings that all have the same text, a text with at least
\* one slug character, get base, base-1, ..., base-(n-1).
C9_SameSlugTextSeries ==
    \A inst \in 1..Len(headings) :
        /\ SmallestFreeSuffix(headings[inst])
        /\ (/\ headings[inst] # <<>>
            /\ SameText(headings[inst])
            /\ Slugify(headings[inst][1].raw) # <<>>)
              => Series(headings[inst], Slugify(headings[inst][1].raw))

\* three headings "h": h, h-1, h-2
C9_Witness ==
    /\ pc = "returned"
    /\ Len(headings[1]) = 3
    /\ SameText(headings[1])
    /\ headings[1][1].raw = H1
    /\ headings[1][3].slug = <<"h", "-", "2">>

\* ------------------------------------------------------- the table handler
\* Tables of a header, a delimiter row and at most MaxRows body rows.
MaxRows == 2

HeaderRows ==
    { <<"h", "|", "h">>,
      <<"|", "h", "|", "h", "|", "h", "|">>,
      <<"h", "|">> }

DelimiterRows ==
    { <<"|", ":", "-", "-", "|", ":", "-", ":", "|", "-", "-", ":", "|">>,
      <<":", "-", ":", "|", "-", ":">>,
      <<" ", ":", " ", "|", " ", ":", "-", " ">>,
      <<"-", " ", "-", " ", "-">>,
      <<"|">>,
      <<"-", ":", "|", "|", ":", "-", ":">> }

BodyRows ==
    { <<"h", "|">>,
      <<"h", "|", "*", "h", "*">>,
      <<"|", "h", "|", "h", "|", "h", "|", "h">>,
      <<":", "-", ":", "|", "-", ":">> }

TableDocs ==
    { join(<<hd, dl>> \o rows, <<NL>>) :
        hd \in HeaderRows, dl \in DelimiterRows,
        rows \in UNION { [1..n -> BodyRows] : n \in 0..MaxRows } }

\* parse has been called on a table document
InitTable ==
    /\ pc = "parsing"
    /\ \E markdown \in TableDocs : stack = <<NewFrame(1, markdown, 0)>>
    /\ headings = << <<>> >>
    /\ result = <<>>
    /\ toc = <<>>
    /\ parsed = TRUE
    /\ prev = 0
    /\ last = NoLast

NextTable ==
    \/ Table
    \/ ParseReturn

SpecTable == InitTable /\ [][NextTable]_vars

\* the alignment the claim gives a delimiter cell
ClaimedAlign(c) ==
    IF c # <<>> /\ c[1] = ":" /\ c[Len(c)] = ":" THEN "center"
    ELSE IF c # <<>> /\ c[Len(c)] = ":" THEN "right"
    ELSE "left"

\* the cells of one emitted row have the alignments of the delimiter cells,
\* left beyond them, one cell per cell of the source row
RowAligned(cells, source, delims) ==
    /\ Len(cells) = Len(source)
    /\ \A j \in 1..Len(cells) :
          cells[j].align = IF j <= Len(delims) THEN ClaimedAlign(delims[j]) ELSE "left"

\* the table element b emitted for lines (header first) is aligned by its delimiter row
TableAligned(b, lines) ==
    /\ b.tag = "table"
    /\ RowAligned(b.ths, sr(lines[1]), sr(lines[2]))
    /\ Len(b.rows) = Len(lines) - 2
    /\ \A r \in 1..Len(b.rows) : RowAligned(b.rows[r], sr(lines[r + 2]), sr(lines[2]))

\* C10: column j of the header and of every body row gets the alignment of
\* cell j of the delimiter row (center: starts and ends with ':'; right: only
\* ends with ':'; left otherwise), left beyond the delimiter's cells, and every
\* row emits exactly its own cells.
C10_ColumnAlignment ==
    /\ (pc = "parsing" /\ stack[1].html_parts # <<>>) =>
          TableAligned(stack[1].html_parts[1], stack[1].lines)
    /\ pc = "returned" => Len(result) = 1 /\ TableAligned(result[1], last.lines)

\* header of three cells, delimiter row of two (center, right), body row of one
C10_Witness ==
    /\ pc = "returned"
    /\ Len(result) = 1
    /\ Len(result[1].ths) = 3
    /\ result[1].ths[1].align = "center"
    /\ result[1].ths[2].align = "right"
    /\ result[1].ths[3].align = "left"
    /\ Len(result[1].rows) = 1
    /\ Len(result[1].rows[1]) = 1
    /\ result[1].rows[1][1].align = "center"

\* ---------------------------------------------------- the inline transformer
\* One-line documents over the delimiters '*' and '_', a letter and a space.
MaxInline == 7

InlineChars == {"*", "_", "a", " "}

InlineTexts == UNION { [1..n -> InlineChars] : n \in 1..MaxInline }

\* parse has been called on a one-line document
InitInline ==
    /\ pc = "parsing"
    /\ \E markdown \in InlineTexts : stack = <<NewFrame(1, markdown, 0)>>
    /\ headings = << <<>> >>
    /\ result = <<>>
    /\ toc = <<>>
    /\ parsed = TRUE
    /\ prev = 0
    /\ last = NoLast

NextInline ==
    \/ SkipBlank
    \/ HorizontalRule
    \/ UnorderedList
    \/ Paragraph
    \/ ParseReturn

SpecInline == InitInline /\ [][NextInline]_vars

\* t is '***' x '***' for a text x of letters, digits and spaces with at
\* least one letter or digit
TripleStar(t) ==
    /\ Len(t) >= 7
    /\ \A k \in {1, 2, 3, Len(t) - 2, Len(t) - 1, Len(t)} : t[k] = "*"
    /\ \A k \in 4..(Len(t) - 3) : IsAlnum(t[k]) \/ t[k] = " "
    /\ \E k \in 4..(Len(t) - 3) : IsAlnum(t[k])

\* every '_' of t stands between two letters or digits
IntraWord(t) ==
    /\ \E k \in 1..Len(t) : t[k] = "_"
    /\ \A k \in 1..Len(t) :
          \/ IsAlnum(t[k])
          \/ t[k] = "_" /\ 1 < k /\ k < Len(t) /\ IsAlnum(t[k - 1]) /\ IsAlnum(t[k + 1])

\* C11: the ten rules run in the listed order: the text '***x***' comes out
\* as <strong><em>x</em></strong>, the bold+italic rule having rewritten it
\* before the bold and the italic rule run, and a text such as 'a_b_c', whose
\* underscores all stand between letters or digits, comes out unchanged.
C11_InlinePrecedence ==
    (pc = "returned" /\ Len(last.lines) = 1) =>
        LET t == last.lines[1]
        IN  /\ TripleStar(t) =>
                  result = <<[tag |-> "p",
                              content |-> StrongOpen \o EmOpen \o SubSeq(t, 4, Len(t) - 3)
                                             \o EmClose \o StrongClose]>>
            /\ IntraWord(t) => result = <<[tag |-> "p", content |-> t]>>

\* the paragraph '***a***' has been rendered
C11_Witness ==
    /\ pc = "returned"
    /\ last.lines = << <<"*", "*", "*", "a", "*", "*", "*">> >>
    /\ Len(result) = 1
    /\ result[1].tag = "p"

\* the paragraph 'a_a_a' has been rendered
C11_WitnessUnderscore ==
    /\ pc = "returned"
    /\ last.lines = << <<"a", "_", "a", "_", "a">> >>
    /\ Len(result) = 1
    /\ result[1].tag = "p"

\* ------------------------------------------------------------ the dispatcher
\* the block kinds in the order their predicates are tested, by element tag
KindOrder == <<"pre", "h", "hr", "blockquote", "ul", "ol", "table", "p">>

\* predicate n of that order holds of lines[i] (i 0-based)
Satisfies(n, lines, i) ==
    LET line == lines[i + 1]
    IN  CASE n = 1 -> StartsWith(strip(line), Fence)
          [] n = 2 -> HeadingMatch(line)
          [] n = 3 -> IsHr(line)
          [] n = 4 -> StartsWith(strip(line), <<">">>)
          [] n = 5 -> IsUlItem(line)
          [] n = 6 -> IsOlItem(line)
          [] n = 7 -> HasPipe(line) /\ i + 1 < Len(lines) /\ IsDelimiterRow(lines[i + 2])
          [] n = 8 -> TRUE

\* the earliest predicate that holds
FirstMatch(lines, i) ==
    KindOrder[CHOOSE n \in 1..8 :
                 /\ Satisfies(n, lines, i)
                 /\ \A m \in 1..(n - 1) : ~Satisfies(m, lines, i)]

\* C12: a non-blank line at the cursor is handled by the handler of the first
\* predicate that holds of it in the order code fence, heading, horizontal
\* rule, blockquote, unordered item, ordered item, table, paragraph; the table
\* handler runs only when a next line exists and is a delimiter row.
C12_FirstMatchWins ==
    [][ (pc = "parsing" /\ Top.i < Len(Top.lines) /\ ~IsBlank(Top.lines[Top.i + 1])) =>
          LET n == Len(stack)
              f == stack[n]
              handler == IF pc' = "raised" \/ Len(stack') = n + 1
                         THEN "blockquote"
                         ELSE stack'[n].html_parts[Len(stack'[n].html_parts)].tag
          IN  /\ Len(stack') = n => Len(stack'[n].html_parts) = Len(f.html_parts) + 1
              /\ handler = FirstMatch(f.lines, f.i)
              /\ handler = "table" =>
                    f.i + 1 < Len(f.lines) /\ IsDelimiterRow(f.lines[f.i + 2]) ]_vars

\* '- - -', which is a rule, a bullet item and a delimiter row, comes after a
\* row of cells and after a plain line: first as part of a table, then as a rule
C12_Witness ==
    /\ pc = "returned"
    /\ last.lines = << <<"h", "|", "h">>, <<"-", " ", "-", " ", "-">>,
                       <<"-", " ", "-", " ", "-">> >>
    /\ Len(result) = 2
    /\ result[1].tag = "table"
    /\ result[2].tag = "hr"

\* ------------------------------------------------------ the paragraph handler
\* a line that ends a paragraph: blank, or matching the heading, blockquote,
\* code-fence, list-item or horizontal-rule pattern of the dispatcher
EndsParagraph(line) ==
    \/ IsBlank(line)
    \/ HeadingMatch(line)
    \/ StartsWith(strip(line), <<">">>)
    \/ StartsWith(strip(line), Fence)
    \/ IsUlItem(line)
    \/ IsOlItem(line)
    \/ IsHr(line)

\* the cursor after a paragraph that starts at line s (0-based): the first
\* line after s that ends a paragraph, or the end of the lines
ParagraphEnd(lines, s) ==
    Min(Len(lines),
        CHOOSE j \in (s + 1)..Len(lines) :
            /\ j = Len(lines) \/ EndsParagraph(lines[j + 1])
            /\ \A m \in (s + 1)..(j - 1) : ~EndsParagraph(lines[m + 1]))

\* C13: the paragraph handler called at line s takes line s and every line
\* after it up to the first line that is blank or matches the heading,
\* blockquote, code-fence, list-item or horizontal-rule pattern; it takes at
\* least one line, and no other line ends the paragraph.
C13_ParagraphExtent ==
    [][ (/\ pc = "parsing"
         /\ Top.i < Len(Top.lines)
         /\ Len(stack') = Len(stack)
         /\ Len(stack'[Len(stack)].html_parts) = Len(Top.html_parts) + 1
         /\ stack'[Len(stack)].html_parts[Len(Top.html_parts) + 1].tag = "p") =>
            /\ stack'[Len(stack)].i > Top.i
            /\ stack'[Len(stack)].i = ParagraphEnd(Top.lines, Top.i) ]_vars

\* ----------------------------------------------------- the blockquote handler
\* the cursor after the run of quoted lines that starts at line s (0-based)
QuoteEnd(lines, s) ==
    CHOOSE j \in (s + 1)..Len(lines) :
        /\ j = Len(lines) \/ ~StartsWith(strip(lines[j + 1]), <<">">>)
        /\ \A m \in (s + 1)..(j - 1) : StartsWith(strip(lines[m + 1]), <<">">>)

\* q is the quoted line l without its first '>' marker and without at most
\* one whitespace character after the marker
OneLevelLess(l, q) ==
    LET p == LeadCount(l, Spaces) + 1
    IN  /\ p <= Len(l)
        /\ l[p] = ">"
        /\ \/ q = SubSeq(l, 1, p - 1) \o From(l, p)
           \/ p < Len(l) /\ IsSpace(l[p + 1]) /\ q = SubSeq(l, 1, p - 1) \o From(l, p + 1)

\* C14: the blockquote handler takes the whole run of lines whose trimmed form
\* starts with '>' and gives the nested parse each of them with exactly one
\* '>' marker, and at most one space after it, removed.
C14_QuoteStripsOneLevel ==
    [][ (pc = "parsing" /\ Len(stack') = Len(stack) + 1) =>
          LET f == Top
              g == stack'[Len(stack) + 1]
          IN  /\ g.ret = QuoteEnd(f.lines, f.i)
              /\ Len(g.lines) = g.ret - f.i
              /\ \A k \in 1..Len(g.lines) : OneLevelLess(f.lines[f.i + k], g.lines[k]) ]_vars

\* ----------------------------------------------------- the code-block handler
\* the cursor after the code block opened at line s (0-based): past the first
\* later line whose trimmed form is the fence, or the end of the lines
CodeEnd(lines, s) ==
    LET closing == {j \in (s + 1)..(Len(lines) - 1) : strip(lines[j + 1]) = Fence}
    IN  IF closing = {} THEN Len(lines)
        ELSE 1 + CHOOSE j \in closing : \A m \in closing : j <= m

\* C15: the code block opened at line s takes every line up to and including
\* the first later line that is exactly a fence, or up to the end of the
\* document; these lines are taken by that block only, and a '# ...' line
\* among them adds no heading record and no entry of the table of contents.
C15_FenceSwallowsLines ==
    /\ [][ (/\ pc = "parsing"
            /\ Top.i < Len(Top.lines)
            /\ Len(stack') = Len(stack)
            /\ Len(stack'[Len(stack)].html_parts) = Len(Top.html_parts) + 1
            /\ stack'[Len(stack)].html_parts[Len(Top.html_parts) + 1].tag = "pre") =>
               LET f == Top
                   g == stack'[Len(stack)]
               IN  /\ g.i = CodeEnd(f.lines, f.i)
                   /\ \A k \in f.i..(g.i - 1) : g.read[k + 1] = 1
                   /\ g.hlog = f.hlog
                   /\ headings' = headings ]_vars
    /\ [](\A d \in 1..Len(stack) :
             \A k \in 1..Len(stack[d].hlog) : stack[d].read[stack[d].hlog[k] + 1] = 1)
    /\ [](pc = "returned" =>
             /\ Len(headings[1]) = Len(last.hlog)
             /\ \A k \in 1..Len(last.hlog) : last.read[last.hlog[k] + 1] = 1
             /\ toc # <<>> => Len(toc[1].items) = Len(last.hlog))

\* a fence, a '# h' line and a closing fence: one code block, no heading
\* record, an empty table of contents
C15_Witness ==
    /\ pc = "returned"
    /\ last.lines = <<Fence, <<"#", " ", "h">>, Fence>>
    /\ Len(result) = 1
    /\ result[1].tag = "pre"
    /\ result[1].code = <<"#", " ", "h">>
    /\ headings[1] = <<>>
    /\ toc # <<>>
    /\ toc[1].items = <<>>

\* ---------------------------------------------------------- the fallback slug
\* the slugs of the records before record k
SlugsBefore(hs, k) == {hs[j].slug : j \in 1..(k - 1)}

\* h-<index> for record k, index being the number of records before it
Positional(k) == <<"h", "-">> \o str(k - 1)

\* C16 (for every sequence of earlier headings): a heading whose raw text has
\* no slug character has the slug h-<index>, index being the number of
\* headings recorded before it in the same parse.
C16_FallbackSlug ==
    \A inst \in 1..Len(headings) :
        \A k \in 1..Len(headings[inst]) :
            Slugify(headings[inst][k].raw) = <<>> =>
                headings[inst][k].slug = Positional(k)

\* C16 (with the collision rule): a heading whose raw text has no slug
\* character has the slug h-<index>, index being the number of headings
\* recorded before it in the same parse, unless an earlier heading of the
\* parse has that slug; then it has h-<index>-c for the smallest c >= 1 that
\* no earlier heading has.
C16_FallbackSlugUnlessTaken ==
    \A inst \in 1..Len(headings) :
        \A k \in 1..Len(headings[inst]) :
            Slugify(headings[inst][k].raw) = <<>> =>
                LET hs == headings[inst]
                    ids == SlugsBefore(hs, k)
                IN  IF Positional(k) \notin ids
                    THEN hs[k].slug = Positional(k)
                    ELSE \E c \in 1..k :
                            /\ hs[k].slug = Suffixed(Positional(k), c)
                            /\ hs[k].slug \notin ids
                            /\ \A b \in 1..(c - 1) : Suffixed(Positional(k), b) \in ids

\* '# h-1' and then '# !': the second heading has the slug h-1-1
C16_Witness ==
    /\ pc = "returned"
    /\ Len(headings[1]) >= 2
    /\ headings[1][1].slug = <<"h", "-", "1">>
    /\ headings[1][2].raw = <<"!">>
    /\ headings[1][2].slug = <<"h", "-", "1", "-", "1">>

\* ------------------------------------------------------- ids of the fragment
\* the id attributes of the heading elements of a fragment, those inside
\* blockquotes included, in document order
RECURSIVE FragmentIds(_)
FragmentIds(parts) ==
    IF parts = <<>> THEN <<>>
    ELSE LET e == Head(parts)
         IN  (CASE e.tag = "h" -> <<e.id>>
                [] e.tag = "blockquote" -> FragmentIds(e.inner)
                [] OTHER -> <<>>) \o FragmentIds(Tail(parts))

\* C17: the heading elements of the fragment a top-level parse returns,
\* whether inside blockquotes or not, have pairwise distinct ids.
C17_FragmentIdsDistinct ==
    pc = "returned" =>
        LET ids == FragmentIds(result)
        IN  \A j, k \in 1..Len(ids) : j # k => ids[j] # ids[k]

\* ------------------------------------------- heading records and elements
\* C18: after a completed top-level parse the i-th heading record has the
\* level and the slug of the i-th top-level heading element of the fragment,
\* there are as many records as such elements, and the anchor of every entry
\* of the table of contents is the id of exactly one top-level heading element.
C18_RecordsMatchElements ==
    pc = "returned" =>
        LET es == HeadingElements(result)
            hs == headings[1]
        IN  /\ Len(es) = Len(hs)
            /\ \A k \in 1..Len(hs) : es[k].lv = hs[k].lv /\ es[k].id = hs[k].slug
            /\ toc # <<>> =>
                  \A n \in 1..Len(toc[1].items) :
                      Cardinality({k \in 1..Len(es) :
                                      <<"#">> \o es[k].id = toc[1].items[n].href}) = 1

\* '# h', a quoted '# h' and '# h' again: two records and two top-level
\* elements, h and h-1, around a blockquote, and the table of contents made
C18_Witness ==
    /\ pc = "returned"
    /\ toc # <<>>
    /\ Len(result) = 3
    /\ result[2].tag = "blockquote"
    /\ Len(headings[1]) = 2
    /\ headings[1][2].slug = <<"h", "-", "1">>
    /\ result[3].tag = "h"
    /\ result[3].id = <<"h", "-", "1">>

====
